---------------------------- MODULE Spec2Model ----------------------------
(***************************************************************************)
(* Process-id management of the kernel (src/src/kern/thread/pid.c): the    *)
(* pid table, the allocator and the alloc / unalloc / detach / exit / join *)
(* protocol, run by concurrent kernel threads under the table lock.        *)
(*                                                                         *)
(* A kernel thread is named by its pid (curthread->t_pid) and has a        *)
(* position pc[t]; the boot thread runs from the start. Every              *)
(* function takes the table lock and runs its critical section in one      *)
(* step; its lock_release and return are a second step (Unlock), and the   *)
(* lock is held in between. pid_exit gives the lock up inside its disown   *)
(* loop and pid_join inside cv_wait, so these two take more steps, and     *)
(* other threads run in between.                                           *)
(*                                                                         *)
(* A pointer a thread keeps across a release of the lock (target_pid in    *)
(* pid_join, my_pi and this_pid in pid_exit) is "stale" once pi_drop has   *)
(* freed the record it points to. What a read through a stale pointer      *)
(* returns, and the value of the field pidinfo_create never sets           *)
(* (detached), are chosen nondeterministically.                            *)
(***************************************************************************)
EXTENDS Integers, FiniteSets, TLC

\* Table capacity (scaled down) and the pid range.
PROCS_MAX == 3

INVALID_PID == 0

BOOTUP_PID == 1

PID_MIN == 2

PID_MAX == PROCS_MAX + 2

\* kern/wait.h option of pid_join.
WNOHANG == 1

\* pi_exitstatus before exit (pidinfo_create) and after pid_unalloc.
BAAD == 47789

DEAD == 57005

\* A kernel thread is named by its pid, curthread->t_pid: the boot thread is
\* BOOTUP_PID and thread_fork starts thread p with the pid p of pid_alloc.
Threads == BOOTUP_PID..PID_MAX

NoThread == INVALID_PID

\* How many threads run at a time, the boot thread included.
MaxRunning == 2

\* The statuses a thread may pass to pid_exit.
ExitStatuses == {0, 42}

\* Every value pi_exitstatus can hold, which is also what a read of a freed
\* record may return.
StatusVals == ExitStatuses \cup {BAAD, DEAD}

\* The pid arguments callers pass to pid_detach and pid_join.
PidArgs == (0 - 1)..(PID_MAX + 1)

\* The flags arguments callers pass to pid_join.
Flags == {0, WNOHANG}

Slots == 0..(PROCS_MAX - 1)

\* A value of the field detached that no code has written: pidinfo_create
\* leaves the field as the memory was.
UNINIT == "uninit"

SET == "true"

\* An empty table slot.
NULL == [pi_pid |-> INVALID_PID, pi_ppid |-> INVALID_PID, pi_exited |-> FALSE,
         pi_exitstatus |-> 0, detached |-> UNINIT]

\* pidlock:  the thread holding the table lock, or NoThread
\* pidinfo:  the table, slot -> record or NULL
\* nextpid, nprocs: the allocator's cursor and count
\* pc:       where each thread is ("deadlocked": asleep in lock_acquire of
\*           the lock it holds itself): "none" (no such thread), "idle" (running,
\*           in no function of this file), or inside pid_join / pid_exit
\* frame:    the locals of a thread inside pid_join / pid_exit
\* reaped:   history: the pids whose record was reclaimed after both their
\*           exit and their detach, and that pid_alloc has not returned since
\* last:     the call that is returning, from the end of its critical
\*           section to its lock_release
\* panicked: a KASSERT failed
VARIABLES pidlock, pidinfo, nextpid, nprocs, pc, frame, last, panicked, reaped

vars == <<pidlock, pidinfo, nextpid, nprocs, pc, frame, last, panicked, reaped>>

\* The locals of a thread that live across a release of the lock.
\*   pid:     pid_join's targetpid (target_pid points into its slot)
\*   i:       pid_exit's loop index (this_pid points into slot i % PROCS_MAX)
\*   stale:   target_pid / this_pid points to a freed record
\*   mystale: my_pi points to a freed record
NoFrame == [pid |-> INVALID_PID, i |-> 0, stale |-> FALSE, mystale |-> FALSE]

\* "Status not written": the caller's *status is left as it was.
NoStatus == 0 - 1

\* The call that is returning: the function, its first argument (a pid, the
\* status of pid_exit), its second (flags of pid_join, dodetach of pid_exit
\* as 0 or 1), its error ("PANIC" when a KASSERT of it failed), the value
\* returned and what it stored in *status.
Call(op, arg, flags, err, val, st) ==
    [op |-> op, arg |-> arg, flags |-> flags, err |-> err, val |-> val, st |-> st]

NoCall == Call("none", 0, 0, "OK", 0, NoStatus)

Slot(pid) == pid % PROCS_MAX

(***************************************************************************)
(* The table and the allocator's helpers.                                  *)
(***************************************************************************)

\* pidinfo_create: every field but detached is set.
pidinfo_create(pid, ppid) ==
    [pi_pid |-> pid, pi_ppid |-> ppid, pi_exited |-> FALSE,
     pi_exitstatus |-> BAAD, detached |-> UNINIT]

\* pi_get: the record of pid, or NULL when its slot is empty or holds another
\* pid.
pi_get(tbl, pid) ==
    IF tbl[Slot(pid)] = NULL THEN NULL
    ELSE IF tbl[Slot(pid)].pi_pid # pid THEN NULL
    ELSE tbl[Slot(pid)]

\* The table together with nprocs, as pi_put and pi_drop change them.
TS(tbl, n) == [tbl |-> tbl, n |-> n]

\* pi_put's KASSERTs.
PiPutOK(tbl, pid) == pid # INVALID_PID /\ tbl[Slot(pid)] = NULL

\* pi_put without its nprocs++.
pi_put_nocount(ts, pid, pi) ==
    [tbl |-> [ts.tbl EXCEPT ![Slot(pid)] = pi], n |-> ts.n]

pi_put(ts, pid, pi) ==
    [tbl |-> [ts.tbl EXCEPT ![Slot(pid)] = pi], n |-> ts.n + 1]

\* The KASSERTs of pi_drop and pidinfo_destroy.
PiDropOK(tbl, pid) ==
    /\ tbl[Slot(pid)] # NULL
    /\ tbl[Slot(pid)].pi_pid = pid
    /\ tbl[Slot(pid)].pi_exited = TRUE
    /\ tbl[Slot(pid)].pi_ppid = INVALID_PID

\* pi_drop without its nprocs--.
pi_drop_nocount(ts, pid) ==
    [tbl |-> [ts.tbl EXCEPT ![Slot(pid)] = NULL], n |-> ts.n]

pi_drop(ts, pid) ==
    [tbl |-> [ts.tbl EXCEPT ![Slot(pid)] = NULL], n |-> ts.n - 1]

\* inc_nextpid without its wrap to PID_MIN.
inc_nextpid_nowrap(n) == n + 1

inc_nextpid(n) == IF n + 1 > PID_MAX THEN PID_MIN ELSE n + 1

\* The scan of pid_alloc from cursor n: the pid it stops at, the cursor
\* advances it made, and whether KASSERT(count < PROCS_MAX*2+5) held.
RECURSIVE ScanFrom(_, _, _)
ScanFrom(tbl, n, count) ==
    IF tbl[Slot(n)] = NULL THEN [pid |-> n, count |-> count, ok |-> TRUE]
    ELSE IF ~(count < PROCS_MAX * 2 + 5)
         THEN [pid |-> n, count |-> count, ok |-> FALSE]
         ELSE ScanFrom(tbl, inc_nextpid(n), count + 1)

Occupied(tbl) == {s \in Slots : tbl[s] # NULL}

(***************************************************************************)
(* Pointers kept across a release of the lock.                             *)
(***************************************************************************)

\* pid_join between cv_wait's sleep and its return: target_pid is live.
JoinPcs == {"join_wait", "join_woken"}

\* pid_exit inside its disown loop: my_pi and this_pid are live.
ExitPcs == {"exit_rel", "exit_reacq"}

\* The threads asleep on the condition variable of the record in slot s.
Sleepers(pcs, fr, s) ==
    {u \in Threads : pcs[u] = "join_wait" /\ Slot(fr[u].pid) = s /\ ~fr[u].stale}

\* The frames once the record in slot s is freed: every pointer to it is
\* stale.
Dangle(pcs, fr, s) ==
    [u \in Threads |->
        IF pcs[u] \in JoinPcs /\ Slot(fr[u].pid) = s
        THEN [fr[u] EXCEPT !.stale = TRUE]
        ELSE IF pcs[u] \in ExitPcs
        THEN [fr[u] EXCEPT !.stale = (fr[u].stale \/ Slot(fr[u].i) = s),
                           !.mystale = (fr[u].mystale \/ Slot(u) = s)]
        ELSE fr[u]]

(***************************************************************************)
(* pid_bootstrap                                                           *)
(***************************************************************************)

Init ==
    /\ pidlock = NoThread
    /\ pidinfo = [s \in Slots |->
                     IF s = BOOTUP_PID
                     THEN pidinfo_create(BOOTUP_PID, INVALID_PID)
                     ELSE NULL]
    /\ nextpid = PID_MIN
    /\ nprocs = 1
    /\ pc = [t \in Threads |-> IF t = BOOTUP_PID THEN "idle" ELSE "none"]
    /\ frame = [t \in Threads |-> NoFrame]
    /\ last = NoCall
    /\ panicked = FALSE
    /\ reaped = {}

(***************************************************************************)
(* thread_fork's use of a pid: the new thread starts running with it, or   *)
(* the fork fails and the parent gives the pid back with pid_unalloc.      *)
(***************************************************************************)

\* pid has a record and no thread runs with it.
NotStarted(pid) ==
    /\ pi_get(pidinfo, pid) # NULL
    /\ ~pi_get(pidinfo, pid).pi_exited
    /\ pc[pid] = "none"

\* The pids thread t may give back: pid_unalloc's KASSERTs.
Unallocable(t) ==
    {p \in PID_MIN..PID_MAX : NotStarted(p) /\ pi_get(pidinfo, p).pi_ppid = t}

Running == {t \in Threads : pc[t] # "none"}

ThreadStart(pid) ==
    /\ ~panicked
    /\ Cardinality(Running) < MaxRunning
    /\ pid \in PID_MIN..PID_MAX
    /\ NotStarted(pid)
    /\ pc' = [pc EXCEPT ![pid] = "idle"]
    /\ UNCHANGED <<pidlock, pidinfo, nextpid, nprocs, frame, last, panicked, reaped>>

(***************************************************************************)
(* Entering and leaving a function.                                        *)
(***************************************************************************)

\* Thread t, running, calls a function of this file: its lock_acquire
\* returns once the lock is free.
Enter(t) ==
    /\ ~panicked
    /\ pc[t] = "idle"
    /\ pidlock = NoThread

\* A failed KASSERT of op in thread t: the kernel panics and nothing runs
\* any more.
Panic(t, op) ==
    /\ panicked' = TRUE
    /\ pidlock' = t
    /\ last' = Call(op, 0, 0, "PANIC", 0, NoStatus)
    /\ UNCHANGED <<pidinfo, nextpid, nprocs, pc, frame, reaped>>

\* The end of op(arg, flags)'s critical section in thread t: it is about to
\* lock_release and return (err, val), with *status = st.
Return(t, op, arg, flags, err, val, st) ==
    /\ pidlock' = t
    /\ last' = Call(op, arg, flags, err, val, st)

\* The lock_release that ends a function, and its return.
Unlock(t) ==
    /\ ~panicked
    /\ pidlock = t
    /\ pc[t] # "deadlocked"
    /\ pidlock' = NoThread
    /\ last' = NoCall
    /\ reaped' = IF last.op = "alloc" /\ last.err = "OK"
                 THEN reaped \ {last.val} ELSE reaped
    /\ UNCHANGED <<pidinfo, nextpid, nprocs, pc, frame, panicked>>

(***************************************************************************)
(* pid_alloc                                                               *)
(***************************************************************************)

\* The test of pid_alloc, off by one.
TableFullLate(n) == n = PROCS_MAX + 1

\* The test that refuses an allocation.
TableFull(n) == n = PROCS_MAX

PidAlloc(t) ==
    /\ Enter(t)
    /\ UNCHANGED <<pc, frame, reaped>>
    /\ IF TableFull(nprocs)
       THEN /\ Return(t, "alloc", 0, 0, "EAGAIN", 0, NoStatus)
            /\ UNCHANGED <<pidinfo, nextpid, nprocs, panicked>>
       ELSE LET sc == ScanFrom(pidinfo, nextpid, 0)
                ts == pi_put(TS(pidinfo, nprocs), sc.pid, pidinfo_create(sc.pid, t))
            IN  IF ~sc.ok
                THEN Panic(t, "alloc")
                ELSE \/ \* pidinfo_create returns NULL
                        /\ Return(t, "alloc", 0, 0, "ENOMEM", 0, NoStatus)
                        /\ nextpid' = sc.pid
                        /\ UNCHANGED <<pidinfo, nprocs, panicked>>
                     \/ IF ~PiPutOK(pidinfo, sc.pid)
                        THEN Panic(t, "alloc")
                        ELSE /\ pidinfo' = ts.tbl
                             /\ nprocs' = ts.n
                             /\ nextpid' = inc_nextpid(sc.pid)
                             /\ Return(t, "alloc", 0, 0, "OK", sc.pid, NoStatus)
                             /\ UNCHANGED panicked

(***************************************************************************)
(* pid_unalloc                                                             *)
(***************************************************************************)

\* What freeing the record of pid does besides pi_drop's table update: the
\* pointers to it dangle, and cv_destroy of a condition variable that threads
\* still sleep on panics (wchan_destroy's assertion) or leaves them asleep.
Freed(pcs, fr, pid) ==
    /\ frame' = Dangle(pcs, fr, Slot(pid))
    /\ panicked' \in {FALSE} \cup {Sleepers(pcs, fr, Slot(pid)) # {}}

\* pid_unalloc(theirpid), called as its KASSERTs require: by the parent, for
\* a child that has not run.
PidUnalloc(t) ==
    /\ Enter(t)
    /\ \E theirpid \in Unallocable(t) :
          LET tbl1 == [pidinfo EXCEPT ![Slot(theirpid)] =
                          [@ EXCEPT !.pi_exitstatus = DEAD,
                                    !.pi_exited = TRUE,
                                    !.pi_ppid = INVALID_PID]]
              ts == pi_drop(TS(tbl1, nprocs), theirpid)
          IN  IF ~PiDropOK(tbl1, theirpid)
              THEN Panic(t, "unalloc")
              ELSE /\ pidinfo' = ts.tbl
                   /\ nprocs' = ts.n
                   /\ Freed(pc, frame, theirpid)
                   /\ Return(t, "unalloc", theirpid, 0, "OK", 0, NoStatus)
                   /\ UNCHANGED <<nextpid, pc, reaped>>

(***************************************************************************)
(* pid_detach                                                              *)
(***************************************************************************)

\* The checks of pid_detach, in the code's order.
DetachErr(tbl, caller, childpid) ==
    IF childpid = INVALID_PID \/ childpid = BOOTUP_PID \/ childpid < PID_MIN
    THEN "EINVAL"
    ELSE IF pi_get(tbl, childpid) = NULL THEN "ESRCH"
    ELSE IF pi_get(tbl, childpid).pi_ppid = INVALID_PID THEN "EINVAL"
    ELSE IF pi_get(tbl, childpid).pi_ppid # caller THEN "EINVAL"
    ELSE "OK"

\* pid_detach that marks the child and leaves it its parent.
Disowned_keepparent(pi) == [pi EXCEPT !.detached = SET]

\* The record of the child after a successful pid_detach.
Disowned(pi) == [pi EXCEPT !.pi_ppid = INVALID_PID, !.detached = SET]

\* pid_detach(childpid) run by t: what it does to the table, nprocs, the
\* frames and panicked.
DetachEffect(t, childpid) ==
    IF DetachErr(pidinfo, t, childpid) # "OK"
    THEN UNCHANGED <<pidinfo, nprocs, frame, panicked, reaped>>
    ELSE LET tbl1 == [pidinfo EXCEPT ![Slot(childpid)] = Disowned(@)]
             ts == pi_drop(TS(tbl1, nprocs), childpid)
         IN  IF tbl1[Slot(childpid)].pi_exited = TRUE
             THEN IF ~PiDropOK(tbl1, childpid)
                  THEN /\ panicked' = TRUE
                       /\ UNCHANGED <<pidinfo, nprocs, frame, reaped>>
                  ELSE /\ pidinfo' = ts.tbl
                       /\ nprocs' = ts.n
                       /\ Freed(pc, frame, childpid)
                       /\ reaped' = reaped \cup {childpid}
             ELSE /\ pidinfo' = tbl1
                  /\ UNCHANGED <<nprocs, frame, panicked, reaped>>

PidDetach(t) ==
    /\ Enter(t)
    /\ \E childpid \in PidArgs :
          /\ DetachEffect(t, childpid)
          /\ Return(t, "detach", childpid, 0, DetachErr(pidinfo, t, childpid), 0, NoStatus)
          /\ UNCHANGED <<nextpid, pc>>

(***************************************************************************)
(* pid_join                                                                *)
(***************************************************************************)

\* The checks of pid_join without the one for the caller's own pid.
JoinErr_noself(tbl, caller, targetpid) ==
    IF \/ targetpid = INVALID_PID \/ targetpid = BOOTUP_PID
       \/ targetpid < PID_MIN \/ targetpid > PID_MAX
    THEN "EINVAL"
    ELSE IF pi_get(tbl, targetpid) = NULL THEN "ESRCH"
    ELSE IF pi_get(tbl, targetpid).pi_ppid = INVALID_PID THEN "EINVAL"
    ELSE "OK"

\* The checks of pid_join, in the code's order.
JoinErr(tbl, caller, targetpid) ==
    IF \/ targetpid = INVALID_PID \/ targetpid = BOOTUP_PID
       \/ targetpid < PID_MIN \/ targetpid > PID_MAX
    THEN "EINVAL"
    ELSE IF pi_get(tbl, targetpid) = NULL THEN "ESRCH"
    ELSE IF pi_get(tbl, targetpid).pi_ppid = INVALID_PID THEN "EINVAL"
    ELSE IF targetpid = caller THEN "EDEADLK"
    ELSE "OK"

\* pid_join that does not look at flags.
JoinOutcome_noflags(tbl, caller, targetpid, flags) ==
    LET err == JoinErr(tbl, caller, targetpid)
        pi == pi_get(tbl, targetpid)
    IN  IF err # "OK"
        THEN [err |-> err, val |-> 0, st |-> NoStatus, wait |-> FALSE]
        ELSE IF pi.pi_exited = FALSE
        THEN [err |-> "OK", val |-> 0, st |-> NoStatus, wait |-> TRUE]
        ELSE [err |-> "OK", val |-> targetpid, st |-> pi.pi_exitstatus,
              wait |-> FALSE]

\* pid_join(targetpid, &status, flags) up to its return or its cv_wait: the
\* error, the value returned, what *status gets, and whether it waits.
JoinOutcome(tbl, caller, targetpid, flags) ==
    LET err == JoinErr(tbl, caller, targetpid)
        pi == pi_get(tbl, targetpid)
    IN  IF err # "OK"
        THEN [err |-> err, val |-> 0, st |-> NoStatus, wait |-> FALSE]
        ELSE IF pi.pi_exited = FALSE
        THEN IF flags = WNOHANG
             THEN [err |-> "OK", val |-> 0, st |-> 0, wait |-> FALSE]
             ELSE [err |-> "OK", val |-> 0, st |-> NoStatus, wait |-> TRUE]
        ELSE [err |-> "OK", val |-> targetpid, st |-> pi.pi_exitstatus,
              wait |-> FALSE]

PidJoin(t) ==
    /\ Enter(t)
    /\ \E targetpid \in PidArgs, flags \in Flags :
          LET o == JoinOutcome(pidinfo, t, targetpid, flags) IN
          IF o.wait
          THEN \* cv_wait(target_pid->pi_cv, pidlock): release and sleep
               /\ pc' = [pc EXCEPT ![t] = "join_wait"]
               /\ frame' = [frame EXCEPT ![t] = [NoFrame EXCEPT !.pid = targetpid]]
               /\ UNCHANGED <<pidlock, pidinfo, nextpid, nprocs, last, panicked, reaped>>
          ELSE /\ Return(t, "join", targetpid, flags, o.err, o.val, o.st)
               /\ UNCHANGED <<pidinfo, nextpid, nprocs, pc, frame, panicked, reaped>>

\* What *status = target_pid->pi_exitstatus reads: the record's field, or
\* anything when the record was freed in the meantime.
StatusRead(t) ==
    IF frame[t].stale THEN StatusVals
    ELSE {pidinfo[Slot(frame[t].pid)].pi_exitstatus}

\* pid_join after cv_broadcast woke it: cv_wait takes the lock again, and
\* with no check of pi_exited the status is read through target_pid and
\* targetpid is returned.
JoinFinish(t) ==
    /\ ~panicked
    /\ pc[t] = "join_woken"
    /\ pidlock = NoThread
    /\ \E st \in StatusRead(t) :
          Return(t, "join", frame[t].pid, 0, "OK", frame[t].pid, st)
    /\ pc' = [pc EXCEPT ![t] = "idle"]
    /\ frame' = [frame EXCEPT ![t] = NoFrame]
    /\ UNCHANGED <<pidinfo, nextpid, nprocs, panicked, reaped>>

(***************************************************************************)
(* pid_exit                                                                *)
(***************************************************************************)

\* What my_pi->pi_pid reads in the disown loop: the caller's pid, or anything
\* when the caller's record was freed in the meantime.
MyPidRead(t, fr) ==
    IF fr[t].mystale THEN BOOTUP_PID..(PID_MAX + 1) ELSE {t}

\* What my_pi->detached reads: true once pid_detach or pid_exit's loop wrote
\* it, anything when nothing wrote it or the record was freed.
DetachedRead(pi, isstale) ==
    IF isstale \/ pi.detached = UNINIT THEN BOOLEAN ELSE {TRUE}

\* The disown loop, for (i = PID_MIN; i < PID_MAX; i++), from index k: the
\* first i whose record has pi_ppid == mypid, or PID_MAX when the loop ends.
RECURSIVE NextChild(_, _, _)
NextChild(tbl, mypid, k) ==
    IF ~(k < PID_MAX) THEN PID_MAX
    ELSE IF pi_get(tbl, k) # NULL /\ pi_get(tbl, k).pi_ppid = mypid THEN k
    ELSE NextChild(tbl, mypid, k + 1)

\* The end of pid_exit(status, dodetach), holding the lock: cv_broadcast,
\* the drop of a detached record, and the state before its lock_release.
\* The thread is gone afterwards.
ExitTail(t, ts, fr, status, dodetach) ==
    LET s == Slot(t)
        \* cv_broadcast(my_pi->pi_cv): through a stale my_pi it finds no sleeper
        woken == [u \in Threads |->
                     IF ~fr[t].mystale /\ u \in Sleepers(pc, fr, s)
                     THEN "join_woken" ELSE pc[u]]
        \* my_pi->pi_ppid = INVALID_PID lands in freed memory when my_pi is stale
        tbl1 == IF fr[t].mystale THEN ts.tbl
                ELSE [ts.tbl EXCEPT ![s].pi_ppid = INVALID_PID]
    IN  /\ pc' = [woken EXCEPT ![t] = "none"]
        /\ \E d \in DetachedRead(ts.tbl[s], fr[t].mystale) :
              IF ~d
              THEN /\ pidinfo' = ts.tbl
                   /\ nprocs' = ts.n
                   /\ frame' = [fr EXCEPT ![t] = NoFrame]
                   /\ Return(t, "exit", status, dodetach, "OK", 0, NoStatus)
                   /\ UNCHANGED <<panicked, reaped>>
              ELSE \* pi_drop(my_pi->pi_pid)
                   \E mypid \in MyPidRead(t, fr) :
                      LET ts2 == pi_drop(TS(tbl1, ts.n), mypid) IN
                      IF ~PiDropOK(tbl1, mypid)
                      THEN /\ pidinfo' = tbl1
                           /\ nprocs' = ts.n
                           /\ frame' = [fr EXCEPT ![t] = NoFrame]
                           /\ Return(t, "exit", status, dodetach, "PANIC", 0, NoStatus)
                           /\ panicked' = TRUE
                           /\ UNCHANGED reaped
                      ELSE /\ pidinfo' = ts2.tbl
                           /\ nprocs' = ts2.n
                           /\ frame' = [Dangle(woken, fr, Slot(mypid)) EXCEPT ![t] = NoFrame]
                           /\ Return(t, "exit", status, dodetach, "OK", 0, NoStatus)
                           /\ reaped' = IF ts.tbl[Slot(mypid)].pi_ppid = INVALID_PID
                                        THEN reaped \cup {mypid} ELSE reaped
                           /\ UNCHANGED panicked

\* The disown loop from index k, holding the lock: up to the lock_release
\* before pid_detach of the next child, or through the end of pid_exit.
ExitLoop(t, ts, k, fr, status) ==
    \E mypid \in MyPidRead(t, fr) :
       LET j == NextChild(ts.tbl, mypid, k) IN
       IF j < PID_MAX
       THEN /\ pidinfo' = ts.tbl
            /\ nprocs' = ts.n
            /\ pc' = [pc EXCEPT ![t] = "exit_rel"]
            /\ frame' = [fr EXCEPT ![t] = [@ EXCEPT !.i = j, !.stale = FALSE]]
            /\ UNCHANGED <<pidlock, last, panicked, reaped>>
       ELSE ExitTail(t, ts, fr, status, 1)

\* pid_exit(status, dodetach) from its lock_acquire on. The boot thread
\* never exits.
PidExit(t) ==
    /\ Enter(t)
    /\ t # BOOTUP_PID
    /\ UNCHANGED nextpid
    /\ IF pi_get(pidinfo, t) = NULL
       THEN Panic(t, "exit")  \* KASSERT(my_pi != NULL)
       ELSE \E status \in ExitStatuses, dodetach \in BOOLEAN :
              LET tbl1 == [pidinfo EXCEPT ![Slot(t)] =
                              [@ EXCEPT !.pi_exited = TRUE,
                                        !.pi_exitstatus = status]]
              IN  IF dodetach
                  THEN ExitLoop(t, TS(tbl1, nprocs), PID_MIN, frame, status)
                  ELSE ExitTail(t, TS(tbl1, nprocs), frame, status, 0)

\* What this_pid->pi_pid reads, after the lock was released: the child's
\* pid, or anything when the child's record was freed in the meantime.
ChildPidRead(t) ==
    IF frame[t].stale THEN PidArgs ELSE {pidinfo[Slot(frame[t].i)].pi_pid}

\* pid_detach(this_pid->pi_pid) called from the loop, with the lock released
\* before it and after it.
ExitDetach(t) ==
    /\ ~panicked
    /\ pc[t] = "exit_rel"
    /\ pidlock = NoThread
    /\ \E childpid \in ChildPidRead(t) : DetachEffect(t, childpid)
    /\ pc' = [pc EXCEPT ![t] = "exit_reacq"]
    /\ UNCHANGED <<pidlock, nextpid, last>>

\* lock_acquire after pid_detach returned, this_pid->detached = true, which
\* lands in freed memory when this_pid is stale, and the rest of the loop.
ExitContinue(t) ==
    /\ ~panicked
    /\ pc[t] = "exit_reacq"
    /\ pidlock = NoThread
    /\ UNCHANGED nextpid
    /\ LET tbl1 == IF frame[t].stale THEN pidinfo
                   ELSE [pidinfo EXCEPT ![Slot(frame[t].i)].detached = SET]
           \* the status pid_exit was called with: it stored it in its record
           status == IF frame[t].mystale THEN NoStatus
                     ELSE pidinfo[Slot(t)].pi_exitstatus
       IN  ExitLoop(t, TS(tbl1, nprocs), frame[t].i + 1, frame, status)

(***************************************************************************)
(* The kernel: any thread takes any step.                                  *)
(***************************************************************************)

(***************************************************************************)
(* target_parent                                                           *)
(***************************************************************************)

\* What target_pid->pi_ppid == parentpid comes to: anything when pi_get
\* returned NULL and the read through it did not fault.
TargetParentVal(tbl, targetpid, parentpid) ==
    IF pi_get(tbl, targetpid) = NULL THEN {0, 1}
    ELSE {IF pi_get(tbl, targetpid).pi_ppid = parentpid THEN 1 ELSE 0}

\* target_parent(targetpid, parentpid): lock_acquire, the comparison, and a
\* second lock_acquire where the lock_release belongs. pi_get's KASSERTs
\* fail for a pid <= 0 and the read through NULL may fault; the second
\* lock_acquire fails its assertion, or sleeps for ever on the lock its own
\* thread holds. The function never returns. The arguments are any pid and
\* any thread's pid; the call record keeps the value only.
TargetParent(t) ==
    /\ Enter(t)
    /\ \/ Panic(t, "target_parent")
       \/ /\ \E v \in UNION {TargetParentVal(pidinfo, targetpid, parentpid) :
                               targetpid \in PidArgs \cap (1..(PID_MAX + 1)),
                               parentpid \in Threads} :
                Return(t, "target_parent", 0, 0, "OK", v, NoStatus)
          /\ pc' = [pc EXCEPT ![t] = "deadlocked"]
          /\ UNCHANGED <<pidinfo, nextpid, nprocs, frame, panicked, reaped>>

Next ==
    \/ \E t \in Threads : TargetParent(t)
    \/ \E t \in Threads : Unlock(t)
    \/ \E pid \in PID_MIN..PID_MAX : ThreadStart(pid)
    \/ \E t \in Threads : PidAlloc(t)
    \/ \E t \in Threads : PidUnalloc(t)
    \/ \E t \in Threads : PidDetach(t)
    \/ \E t \in Threads : PidJoin(t)
    \/ \E t \in Threads : JoinFinish(t)
    \/ \E t \in Threads : PidExit(t)
    \/ \E t \in Threads : ExitDetach(t)
    \/ \E t \in Threads : ExitContinue(t)

Spec == Init /\ [][Next]_vars

(***************************************************************************)
(* Properties                                                              *)
(***************************************************************************)

\* A call of op has run its critical section and is about to return.
Returning(op) == pidlock # NoThread /\ last.op = op

\* The step is the critical section of a call of op.
Ran(op) == last.op = "none" /\ last'.op = op

\* The slots that hold a record with this pid.
SlotsOf(tbl, pid) == {s \in Slots : tbl[s] # NULL /\ tbl[s].pi_pid = pid}

\* The shape of the table: each record in the slot of its own pid.
C1_TableShape ==
    \A s \in Slots :
       pidinfo[s] # NULL =>
          /\ Slot(pidinfo[s].pi_pid) = s
          /\ pidinfo[s].pi_pid \in {BOOTUP_PID} \cup (PID_MIN..PID_MAX)

C1_Returned ==
    (Returning("alloc") /\ last.err = "OK") =>
       /\ last.val \in PID_MIN..PID_MAX
       /\ SlotsOf(pidinfo, last.val) = {Slot(last.val)}
       /\ pidinfo[Slot(last.val)].pi_ppid = pidlock

C1_Step ==
    (Ran("alloc") /\ last'.err = "OK") =>
       /\ pidinfo[Slot(last'.val)] = NULL
       /\ \A s \in Slots \ {Slot(last'.val)} : pidinfo'[s] = pidinfo[s]

\* C1: every successful pid_alloc returns a pid in PID_MIN..PID_MAX that no
\* other record of the table has, under any interleaving of callers. Every
\* record sits in the slot of its own pid (pid % PROCS_MAX), so no slot holds
\* two records, and the allocation fills a slot that was empty and touches
\* no other.
C1_AllocUnique == [](C1_TableShape /\ C1_Returned) /\ [][C1_Step]_vars

\* C1 happens: an allocation returns a pid while the table holds other
\* records and fills its last free slot.
C1_Witness ==
    /\ Returning("alloc") /\ last.err = "OK"
    /\ nprocs = PROCS_MAX
    /\ last.val # PID_MIN

\* The table never holds more than PROCS_MAX records.
C2_Bounded ==
    /\ nprocs <= PROCS_MAX
    /\ Cardinality(Occupied(pidinfo)) <= PROCS_MAX

C2_Step ==
    (Ran("alloc") /\ Cardinality(Occupied(pidinfo)) = PROCS_MAX) =>
       /\ last'.err = "EAGAIN"
       /\ UNCHANGED <<pidinfo, nextpid, nprocs>>

\* C2: with PROCS_MAX records in the table pid_alloc returns EAGAIN and
\* leaves the table, nextpid and nprocs as they were; neither nprocs nor the
\* number of occupied slots ever exceeds PROCS_MAX.
C2_FullTableRefuses == []C2_Bounded /\ [][C2_Step]_vars

\* C2 happens: pid_alloc returns EAGAIN on a full table.
C2_Witness ==
    /\ Returning("alloc") /\ last.err = "EAGAIN"
    /\ Cardinality(Occupied(pidinfo)) = PROCS_MAX

\* nprocs counts the occupied slots while the lock is free.
C3_Counted == pidlock = NoThread => nprocs = Cardinality(Occupied(pidinfo))

C3_Step ==
    /\ nprocs' - nprocs = Cardinality(Occupied(pidinfo')) - Cardinality(Occupied(pidinfo))
    /\ nprocs' - nprocs \in {0 - 1, 0, 1}
    /\ (Ran("alloc") /\ last'.err = "OK") => nprocs' = nprocs + 1
    /\ (last.op = "none" /\ last'.err \notin {"OK", "PANIC"}) => nprocs' = nprocs
    /\ Ran("join") => nprocs' = nprocs

\* C3: whenever the table lock is free nprocs is the number of occupied
\* slots. It is 1 after pid_bootstrap, a successful pid_alloc adds one, each
\* reclaimed record takes one off, and a failed call or a pid_join leaves it.
C3_NprocsCountsRecords == (nprocs = 1) /\ []C3_Counted /\ [][C3_Step]_vars

\* C3 happens: records were allocated and reclaimed and the lock is free.
C3_Witness ==
    /\ pidlock = NoThread
    /\ reaped # {}
    /\ nprocs = 2

\* The pids pid_alloc hands out.
Pids == PID_MIN..PID_MAX

\* The step of a pid_exit(s, false) of an undetached X, and the joins after it.
C4_Step ==
    \A X \in Pids :
       ( /\ Ran("exit") /\ pidlock' = X
         /\ last'.flags = 0 /\ last'.err = "OK"
         /\ pi_get(pidinfo, X) # NULL
         /\ pi_get(pidinfo, X).pi_ppid # INVALID_PID )
       => \A caller \in Threads \ {X}, flags \in Flags :
             JoinOutcome(pidinfo', caller, X, flags) =
                [err |-> "OK", val |-> X, st |-> last'.arg, wait |-> FALSE]

\* C4: when X, which nobody detached, calls pid_exit(s, false), a pid_join(X)
\* by any other caller returns (X, s) without waiting, whatever its flags.
C4_ExitedIsJoinable == [][C4_Step]_vars

\* The step in which a woken pid_join returns.
C5_Step ==
    \A u \in Threads :
       (pc[u] = "join_woken" /\ pc'[u] = "idle") =>
          LET X == frame[u].pid
              pi == pi_get(pidinfo, X)
          IN  /\ last'.op = "join" /\ last'.err = "OK" /\ last'.val = X
              /\ last'.st \in ExitStatuses
              /\ (pi # NULL /\ pi.pi_exited) => last'.st = pi.pi_exitstatus

\* C5: a caller that waited in pid_join(X) and was woken by X's pid_exit
\* returns (X, s), s being the status X passed to pid_exit: a status some
\* pid_exit was called with, and the one in X's record while the table has it.
C5_WokenJoinReturnsStatus == [][C5_Step]_vars

\* What pid_join with WNOHANG comes to, in every state.
C6_Outcome ==
    /\ \A caller \in Threads, targetpid \in PidArgs :
          ~JoinOutcome(pidinfo, caller, targetpid, WNOHANG).wait
    /\ \A P \in Threads, X \in Pids :
          LET pi == pi_get(pidinfo, X)
              o == JoinOutcome(pidinfo, P, X, WNOHANG)
          IN  (pi # NULL /\ pi.pi_ppid = P /\ ~pi.pi_exited) =>
                 /\ o.err = "OK" /\ o.val = 0
                 /\ o.st # pi.pi_exitstatus

C6_Returned ==
    LET pi == pi_get(pidinfo, last.arg) IN
    ( /\ Returning("join") /\ last.flags = WNOHANG /\ last.arg \in Pids
      /\ pi # NULL /\ pi.pi_ppid = pidlock /\ ~pi.pi_exited )
    => last.err = "OK" /\ last.val = 0 /\ last.st = 0

C6_Step ==
    (Ran("join") /\ last'.flags = WNOHANG) =>
       UNCHANGED <<pidinfo, nextpid, nprocs, pc, frame>>

Parentless(tbl, X) ==
    pi_get(tbl, X) = NULL \/ pi_get(tbl, X).pi_ppid = INVALID_PID

\* What pid_detach(X) by P comes to, in every state.
C7_Outcome ==
    \A P \in Threads, X \in Pids :
       LET pi == pi_get(pidinfo, X) IN
       /\ (pi # NULL /\ pi.pi_ppid = P) <=> DetachErr(pidinfo, P, X) = "OK"
       /\ (pi # NULL /\ pi.pi_ppid = INVALID_PID) => DetachErr(pidinfo, P, X) = "EINVAL"
       /\ pi = NULL => DetachErr(pidinfo, P, X) = "ESRCH"

C7_Returned ==
    (Returning("detach") /\ last.err = "OK") =>
       /\ last.arg \in Pids
       /\ Parentless(pidinfo, last.arg)

C7_Step ==
    /\ (Ran("detach") /\ last'.err = "OK") =>
          /\ pi_get(pidinfo, last'.arg) # NULL
          /\ pi_get(pidinfo, last'.arg).pi_ppid = pidlock'
          /\ pi_get(pidinfo, last'.arg).pi_exited <=> pi_get(pidinfo', last'.arg) = NULL
    /\ \A X \in Pids :
          (Parentless(pidinfo, X) /\ ~Parentless(pidinfo', X)) =>
             /\ Ran("alloc") /\ last'.err = "OK" /\ last'.val = X
             /\ pi_get(pidinfo, X) = NULL
    /\ \A X \in Pids :
          (pi_get(pidinfo, X) = NULL /\ pi_get(pidinfo', X) # NULL) =>
             Ran("alloc") /\ last'.err = "OK" /\ last'.val = X

C8_SelfJoinDeadlock ==
    (Returning("join") /\ last.arg = pidlock /\ pidlock \in Pids) =>
       last.err = "EDEADLK"

\* What pid_join(X) by a running X comes to, in every state.
C8_Outcome ==
    \A X \in Pids, flags \in Flags :
       pc[X] = "idle" =>
          LET pi == pi_get(pidinfo, X)
              o == JoinOutcome(pidinfo, X, X, flags)
          IN  /\ pi # NULL
              /\ ~pi.pi_exited
              /\ ~o.wait /\ o.val = 0
              /\ o.err = IF pi.pi_ppid = INVALID_PID THEN "EINVAL" ELSE "EDEADLK"

C8_Returned ==
    (Returning("join") /\ last.arg = pidlock /\ pidlock \in Pids) =>
       /\ pi_get(pidinfo, pidlock) # NULL
       /\ last.err = IF pi_get(pidinfo, pidlock).pi_ppid = INVALID_PID
                     THEN "EINVAL" ELSE "EDEADLK"
       /\ last.val = 0

C8_Step ==
    (Ran("join") /\ last'.arg = pidlock' /\ pidlock' \in Pids) =>
       UNCHANGED <<pidinfo, nextpid, nprocs, pc, frame>>

\* C8, corrected: pid_join(X) called by X returns EDEADLK while X's record
\* has a parent, and EINVAL once X was detached (that check comes first);
\* either way it does not wait and leaves the table as it was.
C8_SelfJoin == [](C8_Outcome /\ C8_Returned) /\ [][C8_Step]_vars

\* C8 happens: a detached thread joins itself and gets EINVAL.
C8_Witness ==
    /\ Returning("join") /\ last.arg = pidlock /\ pidlock \in Pids
    /\ pi_get(pidinfo, pidlock).pi_ppid = INVALID_PID
    /\ last.err = "EINVAL"

\* C9: pid_detach returns EINVAL for INVALID_PID, BOOTUP_PID, a pid below
\* PID_MIN and a pid above PID_MAX, and ESRCH only for a pid of
\* PID_MIN..PID_MAX that has no record.
C9_DetachArgErrors ==
    Returning("detach") =>
       /\ (last.arg \notin Pids) => last.err = "EINVAL"
       /\ last.err = "ESRCH" =>
             last.arg \in Pids /\ pi_get(pidinfo, last.arg) = NULL

\* The record pidinfo_create is meant to make: not exited, not detached.
IsFresh(pi, pid, ppid) ==
    /\ pi.pi_pid = pid
    /\ pi.pi_ppid = ppid
    /\ pi.pi_exited = FALSE
    /\ pi.pi_exitstatus = BAAD
    /\ DetachedRead(pi, FALSE) = {FALSE}

\* The second of X's exit and its parent's detach reclaims the record.
C10_ReclaimStep ==
    \A X \in Pids :
       LET pi == pi_get(pidinfo, X) IN
       ( pi # NULL /\
         \/ Ran("detach") /\ last'.err = "OK" /\ last'.arg = X /\ pi.pi_exited
         \/ Ran("exit") /\ last'.err = "OK" /\ pidlock' = X
               /\ pc[X] = "idle" /\ pi.pi_ppid = INVALID_PID )
       => /\ pi_get(pidinfo', X) = NULL
          /\ pidinfo'[Slot(X)] = NULL
          /\ nprocs' = nprocs - 1

C10_Reused ==
    (Returning("alloc") /\ last.err = "OK" /\ last.val \in reaped) =>
       IsFresh(pi_get(pidinfo, last.val), last.val, pidlock)

\* C10: once X exited and its parent detached it, in either order, X's
\* record is out of the table and nprocs is one less; a later pid_alloc
\* that returns X again makes a fresh record: not exited, not detached, its
\* parent the caller, nothing of the old record in it.
C10_ReuseIsFresh == []C10_Reused /\ [][C10_ReclaimStep]_vars

\* C11: when pid_exit(status, true) called by S has returned, no record of
\* the table has S as its parent, whatever the pid of the child in
\* PID_MIN..PID_MAX, PID_MAX included.
C11_ExitDisownsAll ==
    (Returning("exit") /\ last.flags = 1 /\ last.err = "OK") =>
       \A X \in Pids :
          pi_get(pidinfo, X) # NULL => pi_get(pidinfo, X).pi_ppid # pidlock

\* One step of any thread, for C12.
C12_Step ==
    \A u \in Threads :
       /\ (pc[u] = "join_woken" /\ pc'[u] = "idle") => ~frame[u].stale
       /\ (pc[u] = "exit_rel" /\ pc'[u] = "exit_reacq") => ~frame[u].stale
       /\ (pc[u] = "exit_reacq" /\ pc'[u] # "exit_reacq") =>
             ~frame[u].stale /\ ~frame[u].mystale


\* C12: no function reads or writes a field of a record that pi_drop has
\* reclaimed: pid_join returning from its wait reads pi_exitstatus of a
\* record still in the table, and pid_exit's loop reads this_pid->pi_pid,
\* writes this_pid->detached and goes on using my_pi only while those
\* records are still in the table.
C12_NoUseAfterReclaim == [][C12_Step]_vars

\* One step of any thread, for C13.
C13_Step ==
    \A t \in Threads :
       pc[t] \in ExitPcs =>
          /\ pi_get(pidinfo, t) # NULL => pi_get(pidinfo, t).pi_exited
          /\ ~(last.op = "none" /\ last'.op # "none" /\ pidlock' # t)


\* C13: pid_exit is one critical section: from its write of pi_exited to its
\* end the caller holds the table lock, so no critical section of another
\* thread runs while a thread is inside pid_exit, also with dodetach true
\* and children to disown.
C13_ExitHoldsLock == [][C13_Step]_vars

\* C14: every function that took the table lock gives it back on every
\* path and never waits for the lock while holding it: a thread that holds
\* the lock in a running kernel is about to release it, so that the lock
\* comes free for the other threads.
C14_LockReleased ==
    \A t \in Threads :
       pidlock = t =>
          /\ pc[t] # "deadlocked"
          /\ panicked \/ ENABLED Unlock(t)

\* The step that ends a pid_exit of X, and a step that takes a zombie away.
C15_Step ==
    \A X \in Pids :
       LET pi == pi_get(pidinfo, X) IN
       /\ (Ran("exit") /\ pidlock' = X /\ pi # NULL) =>
             IF pi.pi_ppid = INVALID_PID
             THEN pi_get(pidinfo', X) = NULL
             ELSE /\ pi_get(pidinfo', X) # NULL
                  /\ pi_get(pidinfo', X).pi_exited
                  /\ pi_get(pidinfo', X).pi_exitstatus = last'.arg
       /\ ( /\ pi # NULL /\ pi.pi_exited /\ pi.pi_ppid # INVALID_PID
            /\ pc[X] \notin ExitPcs
            /\ pi_get(pidinfo', X) = NULL )
          => /\ last'.op = "detach" /\ last'.arg = X /\ last'.err = "OK"
             /\ pidlock' = pi.pi_ppid

\* C15: at the end of X's pid_exit, the record of an X its parent detached
\* before is out of the table, and the record of an X nobody detached is in
\* the table with pi_exited true and the status X passed; such a zombie
\* leaves the table only through its parent's pid_detach.
C15_ZombieUntilDetach == [][C15_Step]_vars

\* C16: the record a successful pid_alloc has just put in the table has its
\* own pid, the caller as parent, pi_exited false, detached false and the
\* status 0xbaad, and nextpid is the pid that follows the returned one
\* (PID_MIN after PID_MAX).
C16_AllocIsFresh ==
    (Returning("alloc") /\ last.err = "OK") =>
       /\ pi_get(pidinfo, last.val) # NULL
       /\ IsFresh(pi_get(pidinfo, last.val), last.val, pidlock)
       /\ nextpid = inc_nextpid(last.val)

\* C17: a pid_join without WNOHANG returns (X, s) only in a state where X's
\* record is in the table with pi_exited true and s is the pi_exitstatus of
\* that record: a joiner whose wait ends looks at pi_exited again before it
\* returns.
C17_JoinSeesExited ==
    (Returning("join") /\ last.err = "OK" /\ last.flags = 0) =>
       /\ last.val = last.arg
       /\ pi_get(pidinfo, last.arg) # NULL
       /\ pi_get(pidinfo, last.arg).pi_exited
       /\ last.st = pi_get(pidinfo, last.arg).pi_exitstatus

\* The most cursor advances KASSERT(count < PROCS_MAX*2+5) lets a scan make.
ScanBound == 2 * PROCS_MAX + 5

\* C18: in every state with nprocs < PROCS_MAX the scan of pid_alloc from
\* nextpid, going from PID_MAX round to PID_MIN, stops at a pid of
\* PID_MIN..PID_MAX whose slot is empty after at most 2*PROCS_MAX+5
\* advances, and no pid_alloc ends in a failed assertion.
C18_ScanTerminates ==
    /\ nextpid \in Pids
    /\ nprocs < PROCS_MAX =>
          LET sc == ScanFrom(pidinfo, nextpid, 0) IN
          /\ sc.ok
          /\ sc.count <= ScanBound
          /\ sc.pid \in Pids
          /\ pidinfo[Slot(sc.pid)] = NULL
    /\ ~(last.op = "alloc" /\ last.err = "PANIC")

\* A pid_alloc has returned the last pid of the range, the cursor is back at
\* PID_MIN, and the next scan has occupied slots to pass.
C18_Witness ==
    /\ Returning("alloc") /\ last.err = "OK" /\ last.val = PID_MAX
    /\ nextpid = PID_MIN
    /\ nprocs < PROCS_MAX
    /\ ScanFrom(pidinfo, nextpid, 0).count >= 1

\* C19: no record is reclaimed twice: every pi_drop, called by pid_detach or
\* by the end of pid_exit, finds in its slot a record with the pid it was
\* given, pi_exited true and pi_ppid INVALID_PID, so none of its KASSERTs
\* fails, also when X's parent detaches X during X's pid_exit(s, true).
C19_DropOnce ==
    ~(panicked /\ last.op \in {"exit", "detach"})

\* The step of a successful pid_alloc: the process Q that gets the new pid
\* allocated nothing yet, so pid_detach(X) by Q succeeds for no X.
C20_Step ==
    (Ran("alloc") /\ last'.err = "OK") =>
       \A X \in Pids : DetachErr(pidinfo', last'.val, X) # "OK"

\* C20: only the thread that allocated X can detach X: a pid handed out by
\* pid_alloc, also one that an exited and reclaimed parent P had before, is
\* the pi_ppid of no record in the table, so that pid_detach(X) by the new
\* owner of the pid does not succeed.
C20_OnlyAllocatorDetaches == [][C20_Step]_vars

====
